---- MODULE Spec2Model ----
(***************************************************************************)
(* Model of the predicate editor of src/src/app.tsx: the immutable Query   *)
(* tree, methodReducer, queryReducer, the derived dispatch of              *)
(* queryDispatchNth and the App that holds the current tree.               *)
(*                                                                         *)
(* JavaScript arrays are modelled as TLA+ sequences; the element with the  *)
(* JavaScript index i is the element i + 1 of the sequence.  A call that   *)
(* throws is modelled by a value [type |-> "throw", error |-> ...].        *)
(***************************************************************************)
EXTENDS Integers, Sequences, FiniteSets, TLC

VARIABLES query, prev, sink, subAction, received, outcome

vars == <<query, prev, sink, subAction, received, outcome>>

(***************************************************************************)
(* Bounds of the exploration.                                              *)
(***************************************************************************)
\* the largest number of predicates (at all depths together) of a tree
MaxNodes == 3
\* indices of actions are drawn from -NegIndex .. MaxIndex
NegIndex == 1
MaxIndex == 2
\* the longest chain of queryDispatchNth sinks an action is sent through
MaxChain == 3
\* the deepest nesting of queries within queries of SpecDeep
MaxDeep == 6

Indices == (0 - NegIndex) .. MaxIndex
\* the operands typed into the text input
Texts == {"", "x"}

(***************************************************************************)
(* Data model, app.tsx lines 3-43.                                         *)
(***************************************************************************)
QueryType == {"all", "any"}
initQueryType == "all"

Field == {"title", "body"}
initField == "title"

MethodType == {"equal", "match"}

\* the allowed method kinds of a field, in the order of the source
allowedMethods(field) ==
    IF field = "title" THEN <<"equal">> ELSE <<"equal", "match">>

initMethods(methodType) == [type |-> methodType, value |-> ""]

initPredicateMethod == initMethods("equal")

PredicateType == {"field", "query"}

initFieldPredicate ==
    [type |-> "field", field |-> initField, method |-> initPredicateMethod]

initQuery == [type |-> initQueryType, predicates |-> <<>>]

initQueryPredicate == [type |-> "query", query |-> initQuery]

(***************************************************************************)
(* JavaScript semantics the reducers rely on.                              *)
(***************************************************************************)
Min(a, b) == IF a < b THEN a ELSE b
Max(a, b) == IF a < b THEN b ELSE a

\* Array.prototype.includes on a sequence
includes(arr, x) == \E k \in 1..Len(arr) : arr[k] = x

\* the relative index of Array.prototype.slice: negative counts from the end
RelIndex(len, k) == IF k < 0 THEN Max(len + k, 0) ELSE Min(k, len)

\* Array.prototype.slice(start, end)
slice(arr, start, end) ==
    SubSeq(arr, RelIndex(Len(arr), start) + 1, RelIndex(Len(arr), end))

\* Array.prototype.slice(start)
sliceFrom(arr, start) == slice(arr, start, Len(arr))

\* arr[i] is undefined outside 0 .. length - 1
InRange(arr, i) == i >= 0 /\ i < Len(arr)

\* an exception: reading .type of undefined raises a TypeError, the
\* reducers themselves throw new Error(...)
Throw(error) == [type |-> "throw", error |-> error]
TypeErrorUndefined == Throw("TypeError")
NotAQuery == Throw("Error: predicate is not a query")
NotAField == Throw("Error: predicate is not a field type")

IsThrow(r) == r.type = "throw"

(***************************************************************************)
(* methodReducer, app.tsx lines 66-82.                                     *)
(***************************************************************************)
\* methodReducer whose updateType keeps the operand
methodReducer_keepsOperand(method, action) ==
    CASE action.type = "updateType" ->
            [type |-> action.methodType, value |-> method.value]
      [] action.type = "updateTextValue" ->
            [type |-> method.type, value |-> action.value]

methodReducer(method, action) ==
    CASE action.type = "updateType" -> initMethods(action.methodType)
      [] action.type = "updateTextValue" ->
            [type |-> method.type, value |-> action.value]

(***************************************************************************)
(* queryReducer, app.tsx lines 84-195, one operator per case.              *)
(***************************************************************************)
\* updateType that builds the result without spreading the query
updateType_dropsPredicates(q, action) ==
    [type |-> action.queryType, predicates |-> <<>>]

updateType(q, action) ==
    [type |-> action.queryType, predicates |-> q.predicates]

\* insertFirst that puts the new predicate behind the others
insertFirst_appends(q, action) ==
    LET toInsert == IF action.predicateType = "field"
                    THEN initFieldPredicate
                    ELSE initQueryPredicate
    IN  [type |-> q.type, predicates |-> q.predicates \o <<toInsert>>]

\* insertFirst that ignores the requested variant
insertFirst_alwaysField(q, action) ==
    [type |-> q.type, predicates |-> <<initFieldPredicate>> \o q.predicates]

insertFirst(q, action) ==
    LET toInsert == IF action.predicateType = "field"
                    THEN initFieldPredicate
                    ELSE initQueryPredicate
    IN  [type |-> q.type, predicates |-> <<toInsert>> \o q.predicates]

\* insertAfterNth without the reuse of lines 103-104
insertAfterNth_noReuse(q, action) ==
    LET preds == q.predicates
        i == action.index
        predType == action.predicateType
    IN  IF ~InRange(preds, i)
        THEN TypeErrorUndefined
        ELSE LET toInsert == IF predType = "field" THEN initFieldPredicate
                             ELSE initQueryPredicate
                 lhs == slice(preds, 0, i + 1)
                 rhs == sliceFrom(preds, i + 1)
             IN  [type |-> q.type, predicates |-> lhs \o <<toInsert>> \o rhs]

insertAfterNth(q, action) ==
    LET preds == q.predicates
        i == action.index
        predType == action.predicateType
    IN  IF ~InRange(preds, i)
        THEN TypeErrorUndefined
        ELSE LET cursor == preds[i + 1]
                 toInsert == IF cursor.type = predType THEN cursor
                             ELSE IF predType = "field" THEN initFieldPredicate
                             ELSE initQueryPredicate
                 lhs == slice(preds, 0, i + 1)
                 rhs == sliceFrom(preds, i + 1)
             IN  [type |-> q.type, predicates |-> lhs \o <<toInsert>> \o rhs]

\* removeNth that cuts one position too far to the right
removeNth_offByOne(q, action) ==
    LET preds == q.predicates
        i == action.index
        lhs == slice(preds, 0, i + 1)
        rhs == sliceFrom(preds, i + 2)
    IN  [type |-> q.type, predicates |-> lhs \o rhs]

removeNth(q, action) ==
    LET preds == q.predicates
        i == action.index
        lhs == slice(preds, 0, i)
        rhs == sliceFrom(preds, i + 1)
    IN  [type |-> q.type, predicates |-> lhs \o rhs]

\* updateNthField without the reset of lines 155-157
updateNthField_keepsMethod(q, action) ==
    LET preds == q.predicates
        i == action.index
    IN  IF ~InRange(preds, i) THEN TypeErrorUndefined
        ELSE LET nth == preds[i + 1] IN
             IF nth.type # "field" THEN NotAField
             ELSE [type |-> q.type,
                   predicates |->
                      [preds EXCEPT ![i + 1] =
                          [type |-> "field", field |-> action.field,
                           method |-> nth.method]]]

\* updateNthField that always starts from the default method
updateNthField_alwaysResets(q, action) ==
    LET preds == q.predicates
        i == action.index
    IN  IF ~InRange(preds, i) THEN TypeErrorUndefined
        ELSE LET nth == preds[i + 1] IN
             IF nth.type # "field" THEN NotAField
             ELSE [type |-> q.type,
                   predicates |->
                      [preds EXCEPT ![i + 1] =
                          [type |-> "field", field |-> action.field,
                           method |-> initMethods(allowedMethods(action.field)[1])]]]

\* updateNthField that writes the new field into the predicate in place, so
\* that every position holding that predicate shows the change
updateNthField_mutatesShared(q, action) ==
    LET preds == q.predicates
        i == action.index
    IN  IF ~InRange(preds, i) THEN TypeErrorUndefined
        ELSE LET nth == preds[i + 1] IN
             IF nth.type # "field" THEN NotAField
             ELSE LET method ==
                          IF includes(allowedMethods(action.field), nth.method.type)
                          THEN nth.method
                          ELSE initMethods(allowedMethods(action.field)[1])
                      new == [type |-> "field", field |-> action.field,
                              method |-> method]
                  IN  [type |-> q.type,
                       predicates |->
                          [k \in 1..Len(preds) |->
                              IF preds[k] = nth THEN new ELSE preds[k]]]

updateNthField(q, action) ==
    LET preds == q.predicates
        i == action.index
    IN  IF ~InRange(preds, i) THEN TypeErrorUndefined
        ELSE LET nth == preds[i + 1] IN
             IF nth.type # "field" THEN NotAField
             ELSE LET method ==
                          IF ~includes(allowedMethods(action.field), nth.method.type)
                          THEN initMethods(allowedMethods(action.field)[1])
                          ELSE nth.method
                  IN  [type |-> q.type,
                       predicates |->
                          [preds EXCEPT ![i + 1] =
                              [type |-> "field", field |-> action.field,
                               method |-> method]]]

\* updateNthMethod that ignores a predicate of the other variant
updateNthMethod_silent(q, action) ==
    LET preds == q.predicates
        i == action.index
    IN  IF ~InRange(preds, i) THEN TypeErrorUndefined
        ELSE LET nth == preds[i + 1] IN
             IF nth.type # "field" THEN q
             ELSE LET method == methodReducer(nth.method, action.action) IN
                  IF ~includes(allowedMethods(nth.field), method.type)
                  THEN q
                  ELSE [type |-> q.type,
                        predicates |->
                           [preds EXCEPT ![i + 1] =
                               [type |-> "field", field |-> nth.field,
                                method |-> method]]]

\* updateNthMethod without the check of lines 180-182
updateNthMethod_unchecked(q, action) ==
    LET preds == q.predicates
        i == action.index
    IN  IF ~InRange(preds, i) THEN TypeErrorUndefined
        ELSE LET nth == preds[i + 1] IN
             IF nth.type # "field" THEN NotAField
             ELSE [type |-> q.type,
                   predicates |->
                      [preds EXCEPT ![i + 1] =
                          [type |-> "field", field |-> nth.field,
                           method |-> methodReducer(nth.method, action.action)]]]

updateNthMethod(q, action) ==
    LET preds == q.predicates
        i == action.index
    IN  IF ~InRange(preds, i) THEN TypeErrorUndefined
        ELSE LET nth == preds[i + 1] IN
             IF nth.type # "field" THEN NotAField
             ELSE LET method == methodReducer(nth.method, action.action) IN
                  IF ~includes(allowedMethods(nth.field), method.type)
                  THEN q
                  ELSE [type |-> q.type,
                        predicates |->
                           [preds EXCEPT ![i + 1] =
                               [type |-> "field", field |-> nth.field,
                                method |-> method]]]

RECURSIVE queryReducer(_, _)

\* updateNthQuery that spreads the nested result instead of the query
updateNthQuery_spreadsNested(q, action) ==
    LET preds == q.predicates
        i == action.index
    IN  IF ~InRange(preds, i) THEN TypeErrorUndefined
        ELSE LET nth == preds[i + 1] IN
             IF nth.type # "query" THEN NotAQuery
             ELSE LET sub == queryReducer(nth.query, action.action) IN
                  IF IsThrow(sub) THEN sub
                  ELSE [type |-> sub.type,
                        predicates |->
                           [preds EXCEPT ![i + 1] =
                               [type |-> "query", query |-> sub]]]

\* updateNthQuery that catches the exception of the nested call
updateNthQuery_swallows(q, action) ==
    LET preds == q.predicates
        i == action.index
    IN  IF ~InRange(preds, i) THEN TypeErrorUndefined
        ELSE LET nth == preds[i + 1] IN
             IF nth.type # "query" THEN NotAQuery
             ELSE LET sub == queryReducer(nth.query, action.action) IN
                  IF IsThrow(sub) THEN q
                  ELSE [type |-> q.type,
                        predicates |->
                           [preds EXCEPT ![i + 1] =
                               [type |-> "query", query |-> sub]]]

\* updateNthQuery that leaves the query alone when there is no predicate
\* at the index
updateNthQuery_ignoresMissing(q, action) ==
    LET preds == q.predicates
        i == action.index
    IN  IF ~InRange(preds, i) THEN q
        ELSE LET nth == preds[i + 1] IN
             IF nth.type # "query" THEN NotAQuery
             ELSE LET sub == queryReducer(nth.query, action.action) IN
                  IF IsThrow(sub) THEN sub
                  ELSE [type |-> q.type,
                        predicates |->
                           [preds EXCEPT ![i + 1] =
                               [type |-> "query", query |-> sub]]]

updateNthQuery(q, action) ==
    LET preds == q.predicates
        i == action.index
    IN  IF ~InRange(preds, i) THEN TypeErrorUndefined
        ELSE LET nth == preds[i + 1] IN
             IF nth.type # "query" THEN NotAQuery
             ELSE LET sub == queryReducer(nth.query, action.action) IN
                  \* an exception of the nested call propagates
                  IF IsThrow(sub) THEN sub
                  ELSE [type |-> q.type,
                        predicates |->
                           [preds EXCEPT ![i + 1] =
                               [type |-> "query", query |-> sub]]]

queryReducer(q, action) ==
    CASE action.type = "updateType" -> updateType(q, action)
      [] action.type = "insertFirst" -> insertFirst(q, action)
      [] action.type = "insertAfterNth" -> insertAfterNth(q, action)
      [] action.type = "removeNth" -> removeNth(q, action)
      [] action.type = "updateNthQuery" -> updateNthQuery(q, action)
      [] action.type = "updateNthField" -> updateNthField(q, action)
      [] action.type = "updateNthMethod" -> updateNthMethod(q, action)

(***************************************************************************)
(* queryDispatchNth, app.tsx lines 202-214.  A dispatch function is        *)
(* modelled by the chain of indices its closures captured, outermost       *)
(* first; the dispatch of useReducer is the empty chain.  Call gives the   *)
(* sequence of actions the dispatch of useReducer receives.                *)
(***************************************************************************)
rootDispatch == <<>>

queryDispatchNth(dispatch, index) == Append(dispatch, index)

\* the dispatch a derived dispatch closes over, and the index it closes over
Parent(dispatch) == SubSeq(dispatch, 1, Len(dispatch) - 1)
Captured(dispatch) == dispatch[Len(dispatch)]

\* a dispatch that wraps the index captured first innermost
RECURSIVE Call_reversed(_, _)
Call_reversed(dispatch, action) ==
    IF dispatch = <<>>
    THEN <<action>>
    ELSE Call_reversed(Tail(dispatch),
                       [type |-> "updateNthQuery",
                        index |-> dispatch[1],
                        action |-> action])

RECURSIVE Call(_, _)
Call(dispatch, action) ==
    IF dispatch = rootDispatch
    THEN <<action>>
    ELSE Call(Parent(dispatch),
              [type |-> "updateNthQuery",
               index |-> Captured(dispatch),
               action |-> action])

\* every dispatch that can be derived with at most n uses of queryDispatchNth
RECURSIVE Dispatches(_)
Dispatches(n) ==
    IF n = 0 THEN {rootDispatch}
    ELSE Dispatches(n - 1) \cup
         {queryDispatchNth(d, i) : d \in Dispatches(n - 1), i \in Indices}

\* the dispatches the events of the model call
AllDispatches == Dispatches(MaxChain)

\* a chain of indices leads through query predicates of q only
RECURSIVE Resolves(_, _)
Resolves(q, chain) ==
    IF chain = <<>> THEN TRUE
    ELSE /\ InRange(q.predicates, chain[1])
         /\ q.predicates[chain[1] + 1].type = "query"
         /\ Resolves(q.predicates[chain[1] + 1].query, Tail(chain))

(***************************************************************************)
(* Size of a tree: the number of predicates at all depths.                 *)
(***************************************************************************)
RECURSIVE Nodes(_)
RECURSIVE NodesOfList(_)
Nodes(q) == NodesOfList(q.predicates)
NodesOfList(preds) ==
    IF preds = <<>> THEN 0
    ELSE (IF preds[1].type = "query" THEN 1 + Nodes(preds[1].query) ELSE 1)
         + NodesOfList(Tail(preds))

(***************************************************************************)
(* App, app.tsx lines 485-496: useReducer(queryReducer, initQuery).  An    *)
(* event handler hands one action to a dispatch; the root dispatch runs    *)
(* queryReducer on the current tree, and the tree is replaced unless the   *)
(* reducer throws.  prev, sink, subAction, received and outcome record     *)
(* that one event: the tree before it, the dispatch that was called and    *)
(* with what, the actions the root dispatch received, and what             *)
(* queryReducer returned or threw.  Idle forgets the record before the     *)
(* next event.                                                             *)
(*                                                                         *)
(* A derived dispatch is made by a QueryPredicate component (lines         *)
(* 315-318) from the dispatch of the Query it is drawn in, so the dispatch *)
(* it was derived from leads to a query of the current tree.  The index    *)
(* captured last and every index of the action are arbitrary: stale and    *)
(* wrong addressing is explored at every depth.                            *)
(***************************************************************************)
NoAction == [type |-> "none"]

Init ==
    /\ query = initQuery
    /\ prev = initQuery
    /\ sink = rootDispatch
    /\ subAction = NoAction
    /\ received = <<>>
    /\ outcome = initQuery

\* one event, explored while the tree has at most limit predicates
Handle(d, action, limit) ==
    LET got == Call(d, action)
        r == queryReducer(query, got[1])
    IN  /\ Resolves(query, Parent(d))
        /\ IF IsThrow(r) THEN TRUE ELSE Nodes(r) <= limit
        /\ prev' = query
        /\ sink' = d
        /\ subAction' = action
        /\ received' = got
        /\ outcome' = r
        /\ query' = IF IsThrow(r) THEN query ELSE r

Dispatch(d, action) == Handle(d, action, MaxNodes)

Idle ==
    /\ received # <<>>
    /\ prev' = initQuery
    /\ sink' = rootDispatch
    /\ subAction' = NoAction
    /\ received' = <<>>
    /\ outcome' = initQuery
    /\ UNCHANGED query

DispatchUpdateType ==
    /\ received = <<>>
    /\ \E d \in AllDispatches, t \in QueryType :
          Dispatch(d, [type |-> "updateType", queryType |-> t])

DispatchInsertFirst ==
    /\ received = <<>>
    /\ \E d \in AllDispatches, p \in PredicateType :
          Dispatch(d, [type |-> "insertFirst", predicateType |-> p])

DispatchInsertAfterNth ==
    /\ received = <<>>
    /\ \E d \in AllDispatches, p \in PredicateType, i \in Indices :
          Dispatch(d, [type |-> "insertAfterNth", predicateType |-> p, index |-> i])

DispatchRemoveNth ==
    /\ received = <<>>
    /\ \E d \in AllDispatches, i \in Indices :
          Dispatch(d, [type |-> "removeNth", index |-> i])

DispatchUpdateNthField ==
    /\ received = <<>>
    /\ \E d \in AllDispatches, i \in Indices, f \in Field :
          Dispatch(d, [type |-> "updateNthField", index |-> i, field |-> f])

DispatchUpdateNthMethodType ==
    /\ received = <<>>
    /\ \E d \in AllDispatches, i \in Indices, m \in MethodType :
          Dispatch(d, [type |-> "updateNthMethod", index |-> i,
                     action |-> [type |-> "updateType", methodType |-> m]])

DispatchUpdateNthMethodText ==
    /\ received = <<>>
    /\ \E d \in AllDispatches, i \in Indices, v \in Texts :
          Dispatch(d, [type |-> "updateNthMethod", index |-> i,
                     action |-> [type |-> "updateTextValue", value |-> v]])

Next ==
    \/ DispatchUpdateType
    \/ DispatchInsertFirst
    \/ DispatchInsertAfterNth
    \/ DispatchRemoveNth
    \/ DispatchUpdateNthField
    \/ DispatchUpdateNthMethodType
    \/ DispatchUpdateNthMethodText
    \/ Idle

Spec == Init /\ [][Next]_vars

(***************************************************************************)
(* The calls of queryReducer the recorded event made: the call of the      *)
(* root dispatch first, then the nested call of each updateNthQuery that   *)
(* reached line 137.  Each entry holds the arguments and what the call     *)
(* returned or threw.                                                      *)
(***************************************************************************)
RECURSIVE CallsOf(_, _)
CallsOf(q, action) ==
    <<[query |-> q, action |-> action, result |-> queryReducer(q, action)]>>
    \o (IF /\ action.type = "updateNthQuery"
           /\ InRange(q.predicates, action.index)
           /\ q.predicates[action.index + 1].type = "query"
        THEN CallsOf(q.predicates[action.index + 1].query, action.action)
        ELSE <<>>)

Calls == IF received = <<>> THEN <<>> ELSE CallsOf(prev, received[1])

\* the actions that carry an index
IndexedActions ==
    {"insertAfterNth", "removeNth", "updateNthQuery", "updateNthField",
     "updateNthMethod"}

(***************************************************************************)
(* C1  Invariant preservation.  Every field predicate at every depth of    *)
(* the current tree has a method kind that is allowed for its field:       *)
(* equal for title, equal or match for body.                               *)
(***************************************************************************)
Allowed(field) == IF field = "title" THEN {"equal"} ELSE {"equal", "match"}

RECURSIVE Compatible(_)
Compatible(q) ==
    \A k \in 1..Len(q.predicates) :
        LET p == q.predicates[k] IN
        IF p.type = "field"
        THEN p.method.type \in Allowed(p.field)
        ELSE Compatible(p.query)

\* C1: every field predicate of the current tree has an allowed method kind
C1_InvariantPreservation == Compatible(query)

\* a field predicate below the root was switched to title while its method
\* was match, and the event completed
C1_Witness ==
    /\ Len(Calls) >= 2
    /\ ~IsThrow(outcome)
    /\ LET c == Calls[Len(Calls)] IN
       /\ c.action.type = "updateNthField"
       /\ c.action.field = "title"
       /\ InRange(c.query.predicates, c.action.index)
       /\ c.query.predicates[c.action.index + 1].type = "field"
       /\ c.query.predicates[c.action.index + 1].method.type = "match"

(***************************************************************************)
(* Shorthands for one recorded call c of queryReducer.                     *)
(***************************************************************************)
\* the action of c carries an index that addresses a predicate of its query
Addresses(c) ==
    /\ c.action.type \in IndexedActions
    /\ c.action.index >= 0
    /\ c.action.index < Len(c.query.predicates)

\* the predicate the action of c addresses
Nth(c) == c.query.predicates[c.action.index + 1]

\* the result of c is a tree with the combinator and the length of the
\* query of c, which differs from it at most at the addressed position
OnlyNthChanged(c) ==
    /\ ~IsThrow(c.result)
    /\ c.result.type = c.query.type
    /\ Len(c.result.predicates) = Len(c.query.predicates)
    /\ \A j \in 1..Len(c.query.predicates) :
          j # c.action.index + 1 => c.result.predicates[j] = c.query.predicates[j]

(***************************************************************************)
(* C2  Every indexed action whose index is outside 0 <= i < length fails   *)
(* with the failure of an index out of range (the TypeError of reading     *)
(* .type of undefined), and returns no tree.                               *)
(***************************************************************************)
\* C2: an indexed action with an index out of range fails and returns no tree
C2_IndexOutOfRangeFails ==
    \A k \in 1..Len(Calls) :
        LET c == Calls[k] IN
        (c.action.type \in IndexedActions /\ ~Addresses(c))
            => c.result = TypeErrorUndefined

(***************************************************************************)
(* C3  With a valid index, updateNthQuery on a field predicate and         *)
(* updateNthField / updateNthMethod on a query predicate throw the         *)
(* mismatch Error, which is not the failure of an index out of range, and  *)
(* the event leaves the current tree as it was.                            *)
(***************************************************************************)
IsMismatch(c) ==
    /\ Addresses(c)
    /\ \/ c.action.type = "updateNthQuery" /\ Nth(c).type = "field"
       \/ c.action.type \in {"updateNthField", "updateNthMethod"}
            /\ Nth(c).type = "query"

\* C3: an action addressed to a predicate of the other variant throws the
\* mismatch Error and the tree stays as it was
C3_TypeMismatchFails ==
    \A k \in 1..Len(Calls) :
        LET c == Calls[k] IN
        IsMismatch(c) =>
            /\ IsThrow(c.result)
            /\ c.result # TypeErrorUndefined
            /\ c.result = IF c.action.type = "updateNthQuery"
                          THEN NotAQuery ELSE NotAField
            /\ IsThrow(outcome)
            /\ query = prev

\* updateNthMethod reached a query predicate of a nested query
C3_Witness ==
    /\ Len(Calls) >= 2
    /\ Calls[Len(Calls)].action.type = "updateNthMethod"
    /\ IsMismatch(Calls[Len(Calls)])
    /\ Len(prev.predicates) >= 1

(***************************************************************************)
(* C4  updateNthField on a field predicate at a valid index: the predicate *)
(* gets the new field; its method is kept (kind and operand) if its kind   *)
(* is allowed for the new field and is otherwise the default instance of   *)
(* the first allowed kind; nothing else of the query changes.              *)
(***************************************************************************)
\* the first kind of allowed(field), app.tsx lines 13-14
FirstAllowed(field) == "equal"

\* C4: updateNthField sets the field and resets the method only if it must
C4_SetField ==
    \A k \in 1..Len(Calls) :
        LET c == Calls[k] IN
        (Addresses(c) /\ c.action.type = "updateNthField" /\ Nth(c).type = "field")
            => /\ OnlyNthChanged(c)
               /\ c.result.predicates[c.action.index + 1] =
                     [type |-> "field",
                      field |-> c.action.field,
                      method |->
                         IF Nth(c).method.type \in Allowed(c.action.field)
                         THEN Nth(c).method
                         ELSE [type |-> FirstAllowed(c.action.field), value |-> ""]]

\* {body, match("x")} was switched to title and became {title, equal("")},
\* next to a sibling
C4_Witness ==
    \E k \in 1..Len(Calls) :
        LET c == Calls[k] IN
        /\ Addresses(c)
        /\ c.action.type = "updateNthField"
        /\ c.action.field = "title"
        /\ Len(c.query.predicates) >= 2
        /\ Nth(c) = [type |-> "field", field |-> "body",
                     method |-> [type |-> "match", value |-> "x"]]
        /\ c.result.predicates[c.action.index + 1] =
              [type |-> "field", field |-> "title",
               method |-> [type |-> "equal", value |-> ""]]

(***************************************************************************)
(* C5  updateNthMethod on a field predicate at a valid index: with         *)
(* candidate = methodReducer(method, action), the call returns its query   *)
(* unchanged (and does not fail) if the kind of candidate is not allowed   *)
(* for the field, and otherwise replaces only the method of that           *)
(* predicate by candidate.                                                 *)
(***************************************************************************)
\* C5: updateNthMethod is a no-op for a kind that is not allowed and
\* otherwise replaces only the method
C5_UpdateMethod ==
    \A k \in 1..Len(Calls) :
        LET c == Calls[k] IN
        (Addresses(c) /\ c.action.type = "updateNthMethod" /\ Nth(c).type = "field")
            => LET candidate == methodReducer(Nth(c).method, c.action.action) IN
               IF candidate.type \notin Allowed(Nth(c).field)
               THEN c.result = c.query
               ELSE /\ OnlyNthChanged(c)
                    /\ c.result.predicates[c.action.index + 1] =
                          [type |-> "field", field |-> Nth(c).field,
                           method |-> candidate]

\* {title, equal("x")} was asked to become match: the tree stayed as it was
C5_Witness ==
    /\ Len(Calls) >= 1
    /\ LET c == Calls[Len(Calls)] IN
       /\ Addresses(c)
       /\ c.action.type = "updateNthMethod"
       /\ c.action.action = [type |-> "updateType", methodType |-> "match"]
       /\ Nth(c) = [type |-> "field", field |-> "title",
                    method |-> [type |-> "equal", value |-> "x"]]
       /\ outcome = prev
       /\ query = prev

(***************************************************************************)
(* C6  insertFirst followed by removeNth of index 0 gives back the query   *)
(* insertFirst was applied to, for the current tree and for the query of   *)
(* every recorded insertFirst call, and for both variants.                 *)
(***************************************************************************)
RemoveFirst == [type |-> "removeNth", index |-> 0]

\* C6: removeNth(0) undoes insertFirst
C6_InsertRemoveInverse ==
    /\ \A p \in PredicateType :
          queryReducer(queryReducer(query,
                          [type |-> "insertFirst", predicateType |-> p]),
                       RemoveFirst) = query
    /\ \A k \in 1..Len(Calls) :
          LET c == Calls[k] IN
          c.action.type = "insertFirst"
              => queryReducer(c.result, RemoveFirst) = c.query

\* a field predicate was put in front of a query predicate of a nested query
C6_Witness ==
    /\ Len(Calls) >= 2
    /\ LET c == Calls[Len(Calls)] IN
       /\ c.action = [type |-> "insertFirst", predicateType |-> "field"]
       /\ Len(c.query.predicates) >= 1
       /\ c.query.predicates[1].type = "query"
       /\ ~IsThrow(outcome)

(***************************************************************************)
(* C7  insertAfterNth at a valid index i: the list is one longer,          *)
(* positions 0..i are unchanged, the former positions after i have moved   *)
(* right by one, and the new element at i + 1 equals the predicate at i    *)
(* if that has the requested variant and is the default predicate of the   *)
(* requested variant otherwise.                                            *)
(***************************************************************************)
DefaultOf(predicateType) ==
    IF predicateType = "field"
    THEN [type |-> "field", field |-> "title",
          method |-> [type |-> "equal", value |-> ""]]
    ELSE [type |-> "query", query |-> [type |-> "all", predicates |-> <<>>]]

\* C7: insertAfterNth inserts at i + 1 a copy of the predicate at i or the
\* default of the requested variant, and moves the rest right
C7_InsertAfter ==
    \A k \in 1..Len(Calls) :
        LET c == Calls[k]
            old == c.query.predicates
            new == c.result.predicates
            i == c.action.index
        IN  (Addresses(c) /\ c.action.type = "insertAfterNth")
            => /\ ~IsThrow(c.result)
               /\ c.result.type = c.query.type
               /\ Len(new) = Len(old) + 1
               /\ \A j \in 1..(i + 1) : new[j] = old[j]
               /\ \A j \in (i + 2)..Len(old) : new[j + 1] = old[j]
               /\ new[i + 2] = IF old[i + 1].type = c.action.predicateType
                               THEN old[i + 1]
                               ELSE DefaultOf(c.action.predicateType)

\* {body, match("x")} was duplicated in front of a following sibling
C7_Witness ==
    \E k \in 1..Len(Calls) :
        LET c == Calls[k] IN
        /\ Addresses(c)
        /\ c.action.type = "insertAfterNth"
        /\ c.action.predicateType = "field"
        /\ c.action.index + 1 < Len(c.query.predicates)
        /\ Nth(c) = [type |-> "field", field |-> "body",
                     method |-> [type |-> "match", value |-> "x"]]
        /\ c.result.predicates[c.action.index + 2] = Nth(c)
        /\ c.query.predicates[c.action.index + 2] # Nth(c)

(***************************************************************************)
(* C8  A dispatch derived through the indices i1..in hands an action a to  *)
(* the root dispatch exactly once, as updateNthQuery(i1, ...               *)
(* updateNthQuery(in, a) ...), and the outcome is that of applying a to    *)
(* the query at the path i1..in and putting the result in its place.       *)
(***************************************************************************)
RECURSIVE Nest(_, _)
Nest(path, action) ==
    IF path = <<>> THEN action
    ELSE [type |-> "updateNthQuery", index |-> path[1],
          action |-> Nest(Tail(path), action)]

RECURSIVE QueryAt(_, _)
QueryAt(q, path) ==
    IF path = <<>> THEN q
    ELSE QueryAt(q.predicates[path[1] + 1].query, Tail(path))

RECURSIVE ReplaceAt(_, _, _)
ReplaceAt(q, path, new) ==
    IF path = <<>> THEN new
    ELSE [type |-> q.type,
          predicates |->
             [q.predicates EXCEPT ![path[1] + 1] =
                 [type |-> "query",
                  query |-> ReplaceAt(q.predicates[path[1] + 1].query,
                                      Tail(path), new)]]]

\* C8: a derived dispatch delivers the wrapped action once, and the outcome
\* is the sub-action applied at the path
C8_Route ==
    received # <<>> =>
        /\ received = <<Nest(sink, subAction)>>
        /\ IF Resolves(prev, sink)
           THEN LET r == queryReducer(QueryAt(prev, sink), subAction) IN
                outcome = IF IsThrow(r) THEN r ELSE ReplaceAt(prev, sink, r)
           ELSE IsThrow(outcome)

\* an action went through two derived dispatches with different indices
\* and changed the query two levels down
C8_Witness ==
    /\ Len(sink) = 2
    /\ sink[1] # sink[2]
    /\ Resolves(prev, sink)
    /\ ~IsThrow(outcome)
    /\ outcome # prev

(***************************************************************************)
(* C9  updateNthQuery on a query predicate at a valid index, when the      *)
(* nested call returns: the predicate at that index becomes a query        *)
(* predicate holding queryReducer(nested query, sub-action); combinator,   *)
(* length and every sibling of the parent are unchanged.  This is stated   *)
(* for the call at every depth.                                            *)
(***************************************************************************)
\* C9: updateNthQuery changes only the addressed query predicate
C9_NestedFrame ==
    \A k \in 1..Len(Calls) :
        LET c == Calls[k] IN
        (/\ Addresses(c)
         /\ c.action.type = "updateNthQuery"
         /\ Nth(c).type = "query"
         /\ ~IsThrow(queryReducer(Nth(c).query, c.action.action)))
            => /\ OnlyNthChanged(c)
               /\ c.result.predicates[c.action.index + 1] =
                     [type |-> "query",
                      query |-> queryReducer(Nth(c).query, c.action.action)]

\* updateNthQuery(0, updateNthField(0, body)) on a root with a sibling after
\* the query predicate, whose nested query has another combinator
C9_Witness ==
    /\ Len(Calls) = 2
    /\ Calls[1].action = [type |-> "updateNthQuery", index |-> 0,
                          action |-> [type |-> "updateNthField", index |-> 0,
                                      field |-> "body"]]
    /\ Len(prev.predicates) = 2
    /\ Len(Calls[2].query.predicates) = 1
    /\ Calls[2].query.predicates[1].type = "field"
    /\ Calls[2].query.predicates[1].field = "title"
    /\ Calls[2].query.type # prev.type
    /\ ~IsThrow(outcome)
    /\ outcome.predicates[1].query.predicates[1].field = "body"

(***************************************************************************)
(* C10  removeNth at a valid index i: the list is one shorter, positions   *)
(* before i are unchanged, every former position j > i is now at j - 1,    *)
(* and the combinator is unchanged.                                        *)
(***************************************************************************)
\* C10: removeNth removes position i and moves the rest left
C10_RemoveAt ==
    \A k \in 1..Len(Calls) :
        LET c == Calls[k]
            old == c.query.predicates
            new == c.result.predicates
            i == c.action.index
        IN  (Addresses(c) /\ c.action.type = "removeNth")
            => /\ ~IsThrow(c.result)
               /\ c.result.type = c.query.type
               /\ Len(new) = Len(old) - 1
               /\ \A j \in 1..i : new[j] = old[j]
               /\ \A j \in (i + 2)..Len(old) : new[j - 1] = old[j]

\* the middle one of three different predicates was removed
C10_Witness ==
    /\ Len(Calls) = 1
    /\ Calls[1].action = [type |-> "removeNth", index |-> 1]
    /\ Len(prev.predicates) = 3
    /\ prev.predicates[1] # prev.predicates[3]
    /\ prev.predicates[2] # prev.predicates[3]
    /\ prev.predicates[1] # prev.predicates[2]
    /\ Len(query.predicates) = 2


(***************************************************************************)
(* C11  insertFirst never fails: the list is one longer, its element 0 is  *)
(* the default predicate of the requested variant, every former predicate  *)
(* has moved right by one in the same order, and the combinator is         *)
(* unchanged.                                                              *)
(***************************************************************************)
\* C11: insertFirst prepends the default predicate of the requested variant
C11_InsertFirst ==
    \A k \in 1..Len(Calls) :
        LET c == Calls[k]
            old == c.query.predicates
            new == c.result.predicates
        IN  c.action.type = "insertFirst"
            => /\ ~IsThrow(c.result)
               /\ c.result.type = c.query.type
               /\ Len(new) = Len(old) + 1
               /\ new[1] = DefaultOf(c.action.predicateType)
               /\ \A j \in 1..Len(old) : new[j + 1] = old[j]

\* a query predicate was put in front of two different predicates of a
\* query whose combinator is any
C11_Witness ==
    \E k \in 1..Len(Calls) :
        LET c == Calls[k] IN
        /\ c.action = [type |-> "insertFirst", predicateType |-> "query"]
        /\ c.query.type = "any"
        /\ Len(c.query.predicates) = 2
        /\ c.query.predicates[1] # c.query.predicates[2]
        /\ c.query.predicates[1].type = "field"
        /\ Len(query.predicates) = 3


(***************************************************************************)
(* C12  methodReducer is total.  updateType(k) gives the default instance  *)
(* of kind k, with the empty operand, whatever the method was and          *)
(* whatever field it belongs to; updateTextValue(t) gives the kind of the  *)
(* method with the operand t.  Stated for every method and for the method  *)
(* of every recorded updateNthMethod call.                                 *)
(***************************************************************************)
Methods == [type : MethodType, value : Texts]

MethodActions ==
    [type : {"updateType"}, methodType : MethodType]
        \cup [type : {"updateTextValue"}, value : Texts]

ExpectedMethod(m, a) ==
    IF a.type = "updateType"
    THEN [type |-> a.methodType, value |-> ""]
    ELSE [type |-> m.type, value |-> a.value]

\* C12: methodReducer returns the default of the kind or the method with the
\* new operand, for every method
C12_MethodReducer ==
    /\ \A m \in Methods : \A a \in MethodActions :
          /\ methodReducer(m, a) \in Methods
          /\ methodReducer(m, a) = ExpectedMethod(m, a)
    /\ \A k \in 1..Len(Calls) :
          LET c == Calls[k] IN
          (Addresses(c) /\ c.action.type = "updateNthMethod"
                        /\ Nth(c).type = "field")
              => methodReducer(Nth(c).method, c.action.action)
                    = ExpectedMethod(Nth(c).method, c.action.action)

\* {body, match("x")} was given the kind equal and became {body, equal("")}
C12_Witness ==
    \E k \in 1..Len(Calls) :
        LET c == Calls[k] IN
        /\ Addresses(c)
        /\ c.action.type = "updateNthMethod"
        /\ c.action.action = [type |-> "updateType", methodType |-> "equal"]
        /\ Nth(c) = [type |-> "field", field |-> "body",
                     method |-> [type |-> "match", value |-> "x"]]
        /\ c.result.predicates[c.action.index + 1].method =
              [type |-> "equal", value |-> ""]


(***************************************************************************)
(* C13  updateType never fails: the result has the requested combinator    *)
(* and the predicate sequence of the query (length, order, every nested    *)
(* subtree).                                                               *)
(***************************************************************************)
\* C13: updateType replaces the combinator and keeps the predicates
C13_SetCombinator ==
    \A k \in 1..Len(Calls) :
        LET c == Calls[k] IN
        c.action.type = "updateType"
            => /\ ~IsThrow(c.result)
               /\ c.result.type = c.action.queryType
               /\ c.result.predicates = c.query.predicates

\* the combinator of a query with a nested query and a field predicate
\* was changed
C13_Witness ==
    /\ Len(Calls) = 1
    /\ Calls[1].action.type = "updateType"
    /\ Calls[1].action.queryType # prev.type
    /\ Len(prev.predicates) = 2
    /\ prev.predicates[1].type = "query"
    /\ Len(prev.predicates[1].query.predicates) = 1
    /\ prev.predicates[2].type = "field"
    /\ query.type # prev.type


(***************************************************************************)
(* The driving layer, app.tsx lines 216-483.  Every Query component is     *)
(* drawn with a query of the current tree and the dispatch that leads to   *)
(* it; it draws one Predicate per element of query.predicates with the     *)
(* index of predicates.map (line 270).  A QueryPredicate derives the       *)
(* dispatch of its nested Query with queryDispatchNth (lines 315-318).     *)
(* The events below are the handlers of these components, called on the    *)
(* tree as it is drawn now.                                                *)
(***************************************************************************)
\* predicates.map((pred, i) => ...) with indices counted from one
MapEntries_oneBased(preds) ==
    {[predicate |-> preds[k], index |-> k] : k \in 1..Len(preds)}

\* predicates.map((pred, i) => <Predicate predicate={pred} index={i} .../>)
MapEntries(preds) ==
    {[predicate |-> preds[k], index |-> k - 1] : k \in 1..Len(preds)}

\* the Query components that are drawn for q, each with its dispatch
RECURSIVE QueryComponents(_, _)
QueryComponents(q, dispatch) ==
    {[query |-> q, dispatch |-> dispatch]}
    \cup UNION
        {QueryComponents(e.predicate.query,
                         queryDispatchNth(dispatch, e.index)) :
            e \in {x \in MapEntries(q.predicates) : x.predicate.type = "query"}}

Drawn == QueryComponents(query, rootDispatch)

\* the FieldPredicate components a Query component draws
FieldEntries(comp) ==
    {e \in MapEntries(comp.query.predicates) : e.predicate.type = "field"}

\* Query.onTypeChange, lines 229-239
UITypeChange ==
    /\ received = <<>>
    /\ \E comp \in Drawn, t \in QueryType :
          Dispatch(comp.dispatch, [type |-> "updateType", queryType |-> t])

\* Query.onInsertFieldFirstButtonClick / onInsertQueryFirstButtonClick,
\* lines 247-256
UIInsertFirst ==
    /\ received = <<>>
    /\ \E comp \in Drawn, p \in PredicateType :
          Dispatch(comp.dispatch, [type |-> "insertFirst", predicateType |-> p])

\* FieldPredicate.insertAfter, lines 342-344
UIInsertAfter ==
    /\ received = <<>>
    /\ \E comp \in Drawn :
          \E e \in FieldEntries(comp) :
             Dispatch(comp.dispatch,
                      [type |-> "insertAfterNth", predicateType |-> "field",
                       index |-> e.index])

\* QueryPredicate.remove and FieldPredicate.remove, lines 319-321, 346-348
UIRemove ==
    /\ received = <<>>
    /\ \E comp \in Drawn :
          \E e \in MapEntries(comp.query.predicates) :
             Dispatch(comp.dispatch, [type |-> "removeNth", index |-> e.index])

\* FieldPredicate.updateField, lines 350-359
UIUpdateField ==
    /\ received = <<>>
    /\ \E comp \in Drawn, f \in Field :
          \E e \in FieldEntries(comp) :
             Dispatch(comp.dispatch,
                      [type |-> "updateNthField", index |-> e.index,
                       field |-> f])

\* Field.onMethodChange, lines 415-443: the select offers allowedMethods[field]
UIMethodChange ==
    /\ received = <<>>
    /\ \E comp \in Drawn :
          \E e \in FieldEntries(comp) :
             \E m \in {x \in MethodType :
                          includes(allowedMethods(e.predicate.field), x)} :
                Dispatch(comp.dispatch,
                         [type |-> "updateNthMethod", index |-> e.index,
                          action |-> [type |-> "updateType", methodType |-> m]])

\* Field.onMethodValueChange, lines 450-457
UIMethodValueChange ==
    /\ received = <<>>
    /\ \E comp \in Drawn, v \in Texts :
          \E e \in FieldEntries(comp) :
             Dispatch(comp.dispatch,
                      [type |-> "updateNthMethod", index |-> e.index,
                       action |-> [type |-> "updateTextValue", value |-> v]])

NextUI ==
    \/ UITypeChange
    \/ UIInsertFirst
    \/ UIInsertAfter
    \/ UIRemove
    \/ UIUpdateField
    \/ UIMethodChange
    \/ UIMethodValueChange
    \/ Idle

SpecUI == Init /\ [][NextUI]_vars

(***************************************************************************)
(* C14  When every action comes from a handler of a component drawn for    *)
(* the current tree, one event at a time, queryReducer never throws:       *)
(* neither the TypeError of an index out of range nor the Error of a       *)
(* predicate of the other variant.                                         *)
(***************************************************************************)
\* C14: no event of the drawn components makes queryReducer throw
C14_NoFailureInNormalOperation ==
    /\ ~IsThrow(outcome)
    /\ \A k \in 1..Len(Calls) : ~IsThrow(Calls[k].result)

\* the method of a field predicate two queries below the root was changed
C14_Witness ==
    /\ Len(sink) = 2
    /\ subAction.type = "updateNthMethod"
    /\ Len(Calls) = 3
    /\ ~IsThrow(outcome)
    /\ outcome # prev


(***************************************************************************)
(* C15  When a nested call of queryReducer throws, every call around it    *)
(* throws the same exception, the root call returns no tree, and the       *)
(* current tree is the one before the event.                               *)
(***************************************************************************)
\* C15: a failure at any depth fails the whole root action and keeps the tree
C15_NestedFailureFailsAll ==
    \A k \in 1..Len(Calls) :
        IsThrow(Calls[k].result)
            => /\ \A j \in 1..k : Calls[j].result = Calls[k].result
               /\ outcome = Calls[k].result
               /\ query = prev

\* an insertAfterNth with an index out of range failed two queries below
\* the root, under a root that has a sibling beside the nested query
C15_Witness ==
    /\ Len(Calls) = 3
    /\ Calls[3].action.type = "insertAfterNth"
    /\ Calls[3].result = TypeErrorUndefined
    /\ Len(prev.predicates) = 2
    /\ IsThrow(outcome)


(***************************************************************************)
(* Deep nesting.  The events of SpecDeep are handlers of the drawn         *)
(* components that build and edit a chain of queries within queries, up    *)
(* to MaxDeep levels: the Q+ button of an empty innermost query, the       *)
(* combinator select and the remove button of every level, and a dispatch  *)
(* derived for an index that may not be there (a stale dispatch).          *)
(***************************************************************************)
DeepInsertQuery ==
    /\ received = <<>>
    /\ \E comp \in Drawn :
          /\ comp.query.predicates = <<>>
          /\ Len(comp.dispatch) < MaxDeep
          /\ Handle(comp.dispatch,
                    [type |-> "insertFirst", predicateType |-> "query"],
                    MaxDeep)

DeepTypeChange ==
    /\ received = <<>>
    /\ \E comp \in Drawn, t \in QueryType :
          Handle(comp.dispatch, [type |-> "updateType", queryType |-> t],
                 MaxDeep)

DeepRemove ==
    /\ received = <<>>
    /\ \E comp \in Drawn :
          \E e \in MapEntries(comp.query.predicates) :
             Handle(comp.dispatch, [type |-> "removeNth", index |-> e.index],
                    MaxDeep)

DeepStaleTypeChange ==
    /\ received = <<>>
    /\ \E comp \in Drawn, i \in Indices, t \in QueryType :
          Handle(queryDispatchNth(comp.dispatch, i),
                 [type |-> "updateType", queryType |-> t], MaxDeep)

NextDeep ==
    \/ DeepInsertQuery
    \/ DeepTypeChange
    \/ DeepRemove
    \/ DeepStaleTypeChange
    \/ Idle

SpecDeep == Init /\ [][NextDeep]_vars

(***************************************************************************)
(* C17  Every call of queryReducer ends, with a tree or an exception, and  *)
(* descends once per updateNthQuery level of its action at most.  For an   *)
(* action that succeeds, the number of nested calls is the number of       *)
(* updateNthQuery levels of the action, and that is at most the depth of   *)
(* the tree.                                                               *)
(***************************************************************************)
\* the number of updateNthQuery levels around the innermost action
RECURSIVE ActionDepth(_)
ActionDepth(action) ==
    IF action.type = "updateNthQuery" THEN 1 + ActionDepth(action.action) ELSE 0

\* the number of levels of queries within queries below q
RECURSIVE TreeDepth(_)
RECURSIVE ListDepth(_)
TreeDepth(q) == ListDepth(q.predicates)
ListDepth(preds) ==
    IF preds = <<>> THEN 0
    ELSE Max(IF preds[1].type = "query" THEN 1 + TreeDepth(preds[1].query) ELSE 0,
             ListDepth(Tail(preds)))

\* C17: the recursion of queryReducer is as deep as the action is nested,
\* which for a successful action is at most the depth of the tree
C17_RecursionDepth ==
    received # <<>> =>
        /\ Len(Calls) >= 1
        /\ Len(Calls) - 1 <= ActionDepth(received[1])
        /\ IsThrow(outcome) \/ outcome.type \in QueryType
        /\ ~IsThrow(outcome) =>
              /\ Len(Calls) - 1 = ActionDepth(received[1])
              /\ ActionDepth(received[1]) <= TreeDepth(prev)

\* the combinator of the query six levels below the root was changed
C17_Witness ==
    /\ Len(Calls) = 7
    /\ ActionDepth(received[1]) = 6
    /\ TreeDepth(prev) = 6
    /\ ~IsThrow(outcome)
    /\ outcome # prev


(***************************************************************************)
(* C18  The copies are independent values.  In the tree returned by an    *)
(* insertAfterNth that duplicated a predicate, or by an insertFirst, any   *)
(* later updateNthField, updateNthMethod or updateNthQuery (at any depth   *)
(* below) addressed to one position leaves the predicates of all other     *)
(* positions, the other copy among them, as they were.                     *)
(***************************************************************************)
\* the edits of a query that a later action can carry into a copy
InnerEdits ==
    [type : {"updateType"}, queryType : QueryType]
        \cup [type : {"insertFirst"}, predicateType : PredicateType]
        \cup [type : {"removeNth"}, index : 0..1]
        \cup [type : {"updateNthField"}, index : 0..1, field : Field]
        \cup [type : {"updateNthMethod"}, index : 0..1, action : MethodActions]

\* the later actions addressed to the predicate at index j
EditsOfCopy(j) ==
    [type : {"updateNthField"}, index : {j}, field : Field]
        \cup [type : {"updateNthMethod"}, index : {j}, action : MethodActions]
        \cup [type : {"updateNthQuery"}, index : {j}, action : InnerEdits]
        \cup [type : {"updateNthQuery"}, index : {j},
              action : [type : {"updateNthQuery"}, index : {0},
                        action : InnerEdits]]

\* c inserted a second copy of the predicate it addresses
Duplicated(c) ==
    /\ Addresses(c)
    /\ c.action.type = "insertAfterNth"
    /\ Nth(c).type = c.action.predicateType
    /\ ~IsThrow(c.result)

\* C18: after a duplication or an insertFirst, an action addressed to one
\* position changes no other position
C18_CopiesIndependent ==
    \A k \in 1..Len(Calls) :
        LET c == Calls[k] IN
        (Duplicated(c) \/ (c.action.type = "insertFirst" /\ ~IsThrow(c.result)))
            => \A j \in 0..(Len(c.result.predicates) - 1) :
                  \A a \in EditsOfCopy(j) :
                     LET r == queryReducer(c.result, a) IN
                     ~IsThrow(r)
                        => /\ Len(r.predicates) = Len(c.result.predicates)
                           /\ \A l \in 1..Len(r.predicates) :
                                 l # j + 1
                                    => r.predicates[l] = c.result.predicates[l]

\* a predicate that is not a default was duplicated inside a nested query,
\* the two copies are equal, and a later action changes the first of them
C18_Witness ==
    \E k \in 2..Len(Calls) :
        LET c == Calls[k]
            i == c.action.index
        IN  /\ Duplicated(c)
            /\ Nth(c) # DefaultOf(c.action.predicateType)
            /\ c.result.predicates[i + 1] = c.result.predicates[i + 2]
            /\ \E a \in EditsOfCopy(i) :
                  LET r == queryReducer(c.result, a) IN
                  /\ ~IsThrow(r)
                  /\ r.predicates[i + 1] # c.result.predicates[i + 1]
                  /\ r.predicates[i + 2] = Nth(c)

====
